---- MODULE Spec2Model ----
(***************************************************************************)
(* A model of the ask_to_db retrieval chatbot: the query router and        *)
(* decomposer, the SQL sub-pipeline, the vector retrieval adapters and     *)
(* context builders, the streaming synthesizer (chatbot.py), the per-user  *)
(* chat memory (chat_memory_service.py) and the two delivery adapters      *)
(* (telegram_bot_handler.py, messenger_bot_handler.py).                    *)
(*                                                                         *)
(* Texts are sequences of tokens.  The language model, the embedding model *)
(* and the database server are external: their answers are drawn from      *)
(* small sets, their failures are nondeterministic choices.                *)
(***************************************************************************)
EXTENDS Integers, Sequences, FiniteSets, TLC

VARIABLES
    \* ---- one run of chat_with_rag_stream (chatbot.py) ----
    pc,                 \* position of the generator
    prompt,             \* the user utterance
    router_response,    \* response of the router model call
    sub_tasks,          \* value returned by route_and_decompose_query
    task_i,             \* 1-based position of the for loop over sub_tasks
    combined_contexts,  \* list of context blocks
    full_context,       \* "\n\n".join(combined_contexts)
    sql_call,           \* locals of the last get_sql_data_context call
    store,              \* committed rows of the products table (ids)
    emitted,            \* deltas the language-model stream has produced
    yielded,            \* fragments the generator has yielded
    exc,                \* the exception the generator raised, or None
    \* ---- a delivery adapter process and the turns it serves ----
    adapter,            \* which bot program runs: "telegram", "messenger", "none"
    memory_store,       \* ChatMemoryService.memory_store: user id -> ChatMemory
    t_pc,               \* position of the handler of each turn
    t_step,             \* position inside get_memory_for_user (Messenger threads)
    t_user,             \* chat id / sender id of each turn
    t_prev,             \* previous_message given to the core in each turn
    t_response,         \* full_response / response of each turn
    t_ref,              \* the ChatMemory a thread holds: 0 for none, or the turn whose
                        \* get_memory_for_user created it
    t_saw_absent,       \* outcome of "user_id not in self.memory_store"
    entry_of,           \* the turn that created the entry of each user id, or 0
    replaced,           \* the ChatMemory objects no longer in memory_store, by creator
    \* ---- the services called on their own ----
    mem_log,            \* the calls made on a ChatMemoryService, oldest first
    retrieval,          \* one retrieval: collections, arguments, rows, blocks
    document_chunks,    \* committed rows of the document_chunks table
    document_chunks_initialized,  \* db_service._document_chunks_initialized
    ingest              \* the runs of generate_chunks_for_about_shop in a process

turnVars == <<pc, prompt, router_response, sub_tasks, task_i, combined_contexts,
              full_context, sql_call, store, emitted, yielded, exc>>

chatVars == <<adapter, memory_store, t_pc, t_step, t_user, t_prev, t_response, t_ref,
              t_saw_absent, entry_of, replaced>>

\* The variables of a run of chat_with_rag_stream but the products table
runVars == <<pc, prompt, router_response, sub_tasks, task_i, combined_contexts,
             full_context, sql_call, emitted, yielded, exc>>

libVars == <<mem_log, retrieval, document_chunks, document_chunks_initialized, ingest>>

vars == <<pc, prompt, router_response, sub_tasks, task_i, combined_contexts,
          full_context, sql_call, store, emitted, yielded, exc,
          adapter, memory_store, t_pc, t_step, t_user, t_prev, t_response, t_ref,
          t_saw_absent, entry_of, replaced,
          mem_log, retrieval, document_chunks, document_chunks_initialized, ingest>>

(***************************************************************************)
(* Bounds of the model.                                                    *)
(***************************************************************************)
MaxTasks == 2        \* longest list of sub-tasks the router model returns
MaxDecor == 2        \* longest run of fence tokens and blanks around an answer
MaxStatements == 2   \* longest generated SQL script, in statements
MaxDeltas == 3       \* longest language-model stream, in deltas
NumTurns == 2        \* turns a delivery adapter receives
MaxFragments == 2    \* longest answer a delivery adapter receives, in fragments
MaxCalls == 4        \* calls made on a ChatMemoryService on its own
MaxTopK == 4         \* largest top_k a retrieval is called with on its own
MaxRuns == 2         \* runs of generate_chunks_for_about_shop in one process
MaxChunks == 2       \* most chunks the document of a run is cut into
MaxChars == 2        \* longest JSON string the router model returns, in characters

(***************************************************************************)
(* Python values.                                                          *)
(***************************************************************************)
None == "<None>"

\* Sequences over S of length at most n.
SeqsUpTo(S, n) == UNION {[1..k -> S] : k \in 0..n}

RECURSIVE Join(_, _)
\* sep.join(parts), parts a sequence of texts
Join(parts, sep) ==
    IF parts = <<>> THEN <<>>
    ELSE IF Len(parts) = 1 THEN parts[1]
    ELSE parts[1] \o sep \o Join(Tail(parts), sep)

\* User utterances (prompt) and the sub-queries the router model writes.
Utterances == {"is there iPhone in stock", "do you have free shipping?"}
SubQueries == {"iPhone stock available"}

(***************************************************************************)
(* JSON values as json.loads returns them.  Only the parts the program     *)
(* reads are kept: for a dict, what .get('sub_query') and .get('intent')   *)
(* return (None when the key is missing); for a string, its length.        *)
(***************************************************************************)
JNull == [kind |-> "null", sub_query |-> None, intent |-> None, items |-> <<>>, chars |-> 0]
\* A string of n characters
JStr(n) == [kind |-> "string", sub_query |-> None, intent |-> None, items |-> <<>>,
            chars |-> n]
JObj(q, i) == [kind |-> "object", sub_query |-> q, intent |-> i, items |-> <<>>, chars |-> 0]
JList(xs) == [kind |-> "list", sub_query |-> None, intent |-> None, items |-> xs, chars |-> 0]

Intents == {"sql", "semantic_product", "semantic_shop"}
\* What the router model may write as an intent: the three, another word, or nothing.
WrittenIntents == Intents \cup {"chitchat", None}

JElements == {JObj(q, i) : q \in SubQueries, i \in WrittenIntents} \cup {JNull}
JValues == {JList(xs) : xs \in SeqsUpTo(JElements, MaxTasks)}
             \cup {JObj(q, "sql") : q \in SubQueries}
             \cup {JNull} \cup {JStr(n) : n \in 0..MaxChars}

(***************************************************************************)
(* The text of a model response, as tokens: a code fence (three           *)
(* backquotes), the words "json" and "sql" that follow an opening fence,   *)
(* blank space, one JSON document, one SQL statement, or other prose.      *)
(***************************************************************************)
Tok(t) == [t |-> t, v |-> JNull, s |-> ""]
Fence == Tok("fence")
WordJson == Tok("json")
WordSql == Tok("sql")
Blank == Tok(" ")
Prose == [t |-> "prose", v |-> JNull, s |-> "Sure, here is the answer:"]
JsonDoc(v) == [t |-> "jsondoc", v |-> v, s |-> ""]
Stmt(s) == [t |-> "stmt", v |-> JNull, s |-> s]

\* response.text: None, or a text
NoText == [none |-> TRUE, toks |-> <<>>]
TextOf(toks) == [none |-> FALSE, toks |-> toks]

RECURSIVE RemovePair(_, _, _)
\* str.replace(a + b, ""), a and b tokens: one pass, left to right
RemovePair(text, a, b) ==
    IF Len(text) < 2 THEN text
    ELSE IF text[1] = a /\ text[2] = b
         THEN RemovePair(SubSeq(text, 3, Len(text)), a, b)
         ELSE <<text[1]>> \o RemovePair(Tail(text), a, b)

\* str.replace(a, "")
RemoveTok(text, a) == SelectSeq(text, LAMBDA x : x # a)

RECURSIVE LStrip(_)
LStrip(text) ==
    IF text # <<>> /\ Head(text) = Blank THEN LStrip(Tail(text)) ELSE text

RECURSIVE RStrip(_)
RStrip(text) ==
    IF text # <<>> /\ text[Len(text)] = Blank
    THEN RStrip(SubSeq(text, 1, Len(text) - 1)) ELSE text

\* str.strip()
Strip(text) == RStrip(LStrip(text))

\* text.replace(fence + "json", "").replace(fence, "").strip()
StripJsonFence(text) == Strip(RemoveTok(RemovePair(text, Fence, WordJson), Fence))

\* text.replace(fence + "sql", "").replace(fence, "").strip()
StripSqlFence(text) == Strip(RemoveTok(RemovePair(text, Fence, WordSql), Fence))

\* json.loads: one JSON document, blanks around it allowed; anything else raises
json_loads(text) ==
    LET t == Strip(text) IN
    IF Len(t) = 1 /\ t[1].t = "jsondoc"
    THEN [ok |-> TRUE, value |-> t[1].v]
    ELSE [ok |-> FALSE, value |-> JNull]

\* The except branch of route_and_decompose_query
FallbackTasks(user_query) == JList(<<JObj(user_query, "semantic_shop")>>)

\* A plausible slip: the fallback degrades to an empty task list
route_and_decompose_query_NoFallback(user_query, response) ==
    IF response.none THEN JList(<<>>)
    ELSE LET r == json_loads(StripJsonFence(response.toks)) IN
         IF r.ok THEN r.value ELSE JList(<<>>)

\* route_and_decompose_query, after the router model has answered
route_and_decompose_query(user_query, response) ==
    IF response.none THEN FallbackTasks(user_query)
    ELSE LET r == json_loads(StripJsonFence(response.toks)) IN
         IF r.ok THEN r.value ELSE FallbackTasks(user_query)

(***************************************************************************)
(* The database: the products table and the document_chunks table.  A row  *)
(* is known by its id; its columns are fixed.                              *)
(***************************************************************************)
ProductIds == {1, 2, 3}
Product(id) ==
    CASE id = 1 -> [name |-> "iPhone 15", name_mm |-> "iPhone 15 (mm)", category |-> "Phones",
                    brand |-> "Apple", price |-> "999.00", stock_quantity |-> "4",
                    description |-> "A phone", embedded |-> TRUE]
      [] id = 2 -> [name |-> "Toner alpha", name_mm |-> "Toner alpha (mm)", category |-> "Skincare",
                    brand |-> "Alpha", price |-> "12.50", stock_quantity |-> "0",
                    description |-> "A toner", embedded |-> TRUE]
      [] OTHER  -> [name |-> "Air Max", name_mm |-> "Air Max (mm)", category |-> "Shoes",
                    brand |-> "Nike", price |-> "49.00", stock_quantity |-> "7",
                    description |-> "A shoe", embedded |-> FALSE]

ChunkIds == {1, 2, 3}
Chunk(id) ==
    CASE id = 1 -> [chunk_index |-> 0, chunk_text |-> "We ship free over 50 dollars.",
                    contextualized_text |-> "Shipping. We ship free over 50 dollars.",
                    embedded |-> TRUE]
      [] id = 2 -> [chunk_index |-> 1, chunk_text |-> "Open 9 to 5.",
                    contextualized_text |-> "", embedded |-> TRUE]
      [] OTHER  -> [chunk_index |-> 2, chunk_text |-> "Returns within 7 days.",
                    contextualized_text |-> "Returns. Returns within 7 days.",
                    embedded |-> FALSE]

\* The rows of the products table when the program starts
InitialStore == ProductIds

\* The statements a generated script is made of
CountAll == "SELECT COUNT(*) FROM products;"
DeleteAll == "DELETE FROM products;"
Commit == "COMMIT;"
BadColumn == "SELECT colour FROM products;"
Statements == {CountAll, DeleteAll, Commit, BadColumn}

\* The result row of CountAll over n rows, as Python prints the tuple
CountRow(n) == "(" \o ToString(n) \o ",)"

(***************************************************************************)
(* cur.execute(sql_query) on a connection opened with autocommit off: the  *)
(* driver has opened a transaction block; the server parses the whole      *)
(* string first, then runs the statements in order.  work is what the      *)
(* session sees, committed what the table durably holds, explicit whether  *)
(* the driver's transaction block is still open.                           *)
(***************************************************************************)
ExecStart(db) ==
    [work |-> db, committed |-> db, explicit |-> TRUE, described |-> FALSE,
     rows |-> <<>>, error |-> None]

RECURSIVE RunStatements(_, _)
RunStatements(stmts, st) ==
    IF stmts = <<>>
    THEN \* end of the message: statements after a COMMIT ran in an implicit
         \* transaction, which the server commits here
         IF st.explicit THEN st ELSE [st EXCEPT !.committed = st.work]
    ELSE LET s == Head(stmts).s IN
         CASE s = CountAll ->
                RunStatements(Tail(stmts),
                    [st EXCEPT !.described = TRUE,
                               !.rows = <<CountRow(Cardinality(st.work))>>])
           [] s = DeleteAll ->
                RunStatements(Tail(stmts),
                    [st EXCEPT !.work = {}, !.described = FALSE, !.rows = <<>>])
           [] s = Commit ->
                RunStatements(Tail(stmts),
                    [st EXCEPT !.committed = st.work, !.explicit = FALSE,
                               !.described = FALSE, !.rows = <<>>])
           [] OTHER ->
                \* the statement is rejected: the open transaction is rolled back
                [st EXCEPT !.work = st.committed, !.described = FALSE, !.rows = <<>>,
                           !.error = "column \"colour\" does not exist"]

cursor_execute(sql_query, db) ==
    LET stmts == SelectSeq(sql_query, LAMBDA x : x # Blank) IN
    IF stmts = <<>>
    THEN [ExecStart(db) EXCEPT !.error = "can't execute an empty query"]
    ELSE IF \E i \in 1..Len(stmts) : stmts[i].t # "stmt"
    THEN [ExecStart(db) EXCEPT !.error = "syntax error at or near"]
    ELSE RunStatements(stmts, ExecStart(db))

\* Python values of the pair execute_sql_query returns
NoneCols == [none |-> TRUE, names |-> <<>>]
Cols(names) == [none |-> FALSE, names |-> names]
NoneResult == [type |-> "none", rows |-> <<>>, text |-> ""]
ListResult(rows) == [type |-> "list", rows |-> rows, text |-> ""]
StrResult(text) == [type |-> "str", rows |-> <<>>, text |-> text]

\* A plausible slip: the except branch returns (None, None)
execute_sql_query_SwallowsError(sql_query, db) ==
    LET r == cursor_execute(sql_query, db) IN
    IF r.error # None
    THEN [cols |-> NoneCols, results |-> NoneResult, store |-> r.committed]
    ELSE IF r.described
    THEN [cols |-> Cols(<<"count">>), results |-> ListResult(r.rows), store |-> r.committed]
    ELSE [cols |-> NoneCols, results |-> NoneResult, store |-> r.committed]

\* execute_sql_query once get_connection has returned: the pair it returns and
\* what the table holds after conn.close()
execute_sql_query(sql_query, db) ==
    LET r == cursor_execute(sql_query, db) IN
    IF r.error # None
    THEN [cols |-> NoneCols, results |-> StrResult(r.error), store |-> r.committed]
    ELSE IF r.described
    THEN [cols |-> Cols(<<"count">>), results |-> ListResult(r.rows), store |-> r.committed]
    ELSE [cols |-> NoneCols, results |-> NoneResult, store |-> r.committed]

\* The characters of a generated SQL text, token by token
SqlString(text) ==
    [i \in 1..Len(text) |-> IF text[i].t \in {"stmt", "prose"} THEN text[i].s ELSE text[i].t]

\* str() of the results of execute_sql_query inside an f-string
ResultRepr(results) ==
    CASE results.type = "none" -> <<"None">>
      [] results.type = "str" -> <<results.text>>
      [] OTHER -> <<"[">> \o Join([i \in 1..Len(results.rows) |-> <<results.rows[i]>>], <<", ">>)
                    \o <<"]">>

NoCall == [called |-> FALSE, generated_sql |-> <<>>, connected |-> FALSE,
           cols |-> NoneCols, results |-> NoneResult]

\* get_sql_data_context: what it raises (None: nothing), the block it returns, the
\* table afterwards, and its locals
get_sql_data_context(sub_query, response, conn_ok, db) ==
    IF response.none
    THEN [raised |-> "AttributeError", block |-> <<>>, store |-> db, call |-> NoCall]
    ELSE LET generated_sql == StripSqlFence(response.toks) IN
         IF ~conn_ok
         THEN [raised |-> "OperationalError", block |-> <<>>, store |-> db,
               call |-> [NoCall EXCEPT !.called = TRUE,
                                       !.generated_sql = generated_sql]]
         ELSE LET r == execute_sql_query(generated_sql, db) IN
              [raised |-> None,
               block |-> IF r.results.type = "str"
                         THEN <<"Database data could not be retrieved. Error: ">>
                                \o ResultRepr(r.results)
                         ELSE <<"Analytical Data (from query ">> \o SqlString(generated_sql)
                                \o <<"): ">> \o ResultRepr(r.results),
               store |-> r.store,
               call |-> [called |-> TRUE, generated_sql |-> generated_sql,
                         connected |-> TRUE, cols |-> r.cols, results |-> r.results]]


(***************************************************************************)
(* Vector retrieval.  The embedding of the query decides the distance of   *)
(* every embedded row; dist maps a row id to that distance.                *)
(***************************************************************************)
DEFAULT_TOP_K == 5

\* ORDER BY embedding <=> query ASC: every order of the rows in which no row comes
\* before a nearer one; rows at the same distance come in any order
NearestFirst(ids, dist) ==
    {rows \in [1..Cardinality(ids) -> ids] :
        /\ \A i, j \in 1..Cardinality(ids) : i # j => rows[i] # rows[j]
        /\ \A i, j \in 1..Cardinality(ids) : i < j => dist[rows[i]] <= dist[rows[j]]}

\* LIMIT k
Limit(rows, k) == SubSeq(rows, 1, IF Len(rows) < k THEN Len(rows) ELSE k)

\* The distances the embedding model may induce on rows 1..3: two orders, and all
\* rows at one distance
Distances == {[i \in 1..3 |-> i], [i \in 1..3 |-> 4 - i], [i \in 1..3 |-> 1]}

\* The rows of the cursor as the function returns them, each with its similarity
Records(hits, dist) ==
    [i \in 1..Len(hits) |-> [id |-> hits[i], similarity |-> 1 - dist[hits[i]]]]

\* A plausible slip: the query has no WHERE embedding IS NOT NULL
retrieve_similar_products_NoNullFilter(db, dist, top_k) ==
    {Records(Limit(rows, top_k), dist) : rows \in NearestFirst(db, dist)}

\* retrieve_similar_products once the embedding is computed, the connection is
\* open and the query succeeds: the lists of rows the server may answer with
retrieve_similar_products(db, dist, top_k) ==
    LET ids == {id \in db : Product(id).embedded}
    IN {Records(Limit(rows, top_k), dist) : rows \in NearestFirst(ids, dist)}

\* retrieve_similar_shop_info, likewise, over document_chunks
retrieve_similar_shop_info(chunks, dist, top_k) ==
    LET ids == {id \in chunks : Chunk(id).embedded}
    IN {Records(Limit(rows, top_k), dist) : rows \in NearestFirst(ids, dist)}

(***************************************************************************)
(* Context builders.  A block is a text; "\n" is a token of its own.       *)
(***************************************************************************)
NL == "\n"

\* A plausible slip: the test for an empty list is missing
build_context_for_products_NoEmptyTest(products) ==
    <<"Here are the relevant products from our database:", NL>>

build_context_for_products(products) ==
    IF products = <<>> THEN <<"No relevant products found in the database.">>
    ELSE LET item(idx) ==
                 LET p == Product(products[idx].id) IN
                 << <<ToString(idx), ". **", p.name, "** (", p.name_mm, ")">>,
                    <<"   - Category: ", p.category, ", Brand: ", p.brand>>,
                    <<"   - Price: $", p.price, ", Stock: ", p.stock_quantity>>,
                    <<"   - Description: ", p.description>>,
                    <<>> >>
             RECURSIVE items(_)
             items(idx) == IF idx > Len(products) THEN <<>>
                           ELSE item(idx) \o items(idx + 1)
             lines == << <<"Here are the relevant products from our database:", NL>> >>
                        \o items(1)
         IN Join(lines, <<NL>>)

build_context_for_shop_info(info_chunks) ==
    IF info_chunks = <<>> THEN <<"No relevant shop information found.">>
    ELSE LET text(idx) ==
                 LET c == Chunk(info_chunks[idx].id) IN
                 IF c.contextualized_text # "" THEN <<c.contextualized_text>>
                 ELSE IF c.chunk_text # "" THEN <<c.chunk_text>>
                 ELSE <<>>
             RECURSIVE items(_)
             items(idx) == IF idx > Len(info_chunks) THEN <<>>
                           ELSE << <<ToString(idx), ". ">> \o text(idx), <<>> >>
                                  \o items(idx + 1)
             lines == << <<"Here is the relevant shop information:", NL>> >> \o items(1)
         IN Join(lines, <<NL>>)


(***************************************************************************)
(* chat_memory_service.py                                                  *)
(***************************************************************************)
Turns == 1..NumTurns
Users == {"u1", "u2"}

\* None where a text is expected
NoneText == <<None>>

\* No entry for the user id in memory_store
AbsentSlot == [present |-> FALSE, user_message |-> None, bot_message |-> NoneText]

\* ChatMemory()
NewChatMemory == [present |-> TRUE, user_message |-> None, bot_message |-> NoneText]

\* ChatMemoryService(): memory_store = {}
EmptyMemoryStore == [u \in Users |-> AbsentSlot]

\* memory_store after get_memory_for_user(user_id); the call returns its entry
get_memory_for_user(ms, user_id) ==
    IF ~ms[user_id].present THEN [ms EXCEPT ![user_id] = NewChatMemory] ELSE ms

\* A plausible slip: the first message of the role is kept, later ones are dropped
add_user_message_KeepsFirst(ms, user_id, message) ==
    LET ms1 == get_memory_for_user(ms, user_id)
    IN IF ms1[user_id].user_message = None
       THEN [ms1 EXCEPT ![user_id].user_message = message]
       ELSE ms1

\* memory_store after ChatMemoryService.add_user_message(user_id, message)
add_user_message(ms, user_id, message) ==
    [get_memory_for_user(ms, user_id) EXCEPT ![user_id].user_message = message]

\* A plausible slip: bot_message is an attribute of the class, shared by all entries
add_bot_message_ClassAttribute(ms, user_id, message) ==
    LET ms1 == get_memory_for_user(ms, user_id)
    IN [u \in Users |-> IF ms1[u].present THEN [ms1[u] EXCEPT !.bot_message = message]
                                          ELSE ms1[u]]

\* memory_store after ChatMemoryService.add_bot_message(user_id, message)
add_bot_message(ms, user_id, message) ==
    [get_memory_for_user(ms, user_id) EXCEPT ![user_id].bot_message = message]

\* A plausible slip: the slots are tested with "is not None" instead of truthiness
to_string_TestsNone(cm) ==
    LET has_user == cm.user_message # None
        has_bot == cm.bot_message # NoneText
    IN IF ~has_user /\ ~has_bot THEN <<>>
       ELSE Join(<< <<"Chat Memory (2 previous message):">> >>
                   \o (IF has_user THEN << <<"User: ", cm.user_message>> >> ELSE <<>>)
                   \o (IF has_bot THEN << <<"Bot: ">> \o cm.bot_message >> ELSE <<>>),
                 <<NL>>)

\* ChatMemory.to_string
to_string(cm) ==
    LET has_user == cm.user_message # None /\ cm.user_message # ""
        has_bot == cm.bot_message # NoneText /\ cm.bot_message # <<>>
    IN IF ~has_user /\ ~has_bot THEN <<>>
       ELSE Join(<< <<"Chat Memory (2 previous message):">> >>
                   \o (IF has_user THEN << <<"User: ", cm.user_message>> >> ELSE <<>>)
                   \o (IF has_bot THEN << <<"Bot: ">> \o cm.bot_message >> ELSE <<>>),
                 <<NL>>)

\* The text of the message of turn t, and the fragments of the answer to it
Utter(t) == "message " \o ToString(t)
Fragments(t) == {"A" \o ToString(t), "B" \o ToString(t)}

(***************************************************************************)
(* What the external services may answer.                                  *)
(***************************************************************************)
DecorTokens == {Fence, WordJson, Blank}
Decors == SeqsUpTo(DecorTokens, MaxDecor)
SampleDocs == {JList(<<JObj(q, "sql")>>) : q \in SubQueries}
RouterBodies ==
    {<<>>, <<Prose>>} \cup {<<JsonDoc(v)>> : v \in JValues}
      \cup {<<Prose, JsonDoc(v)>> : v \in SampleDocs}
      \cup {<<JsonDoc(v), Blank, JsonDoc(v)>> : v \in SampleDocs}

\* Responses of the router model: no text at all, or a body between fences and blanks
RouterResponses ==
    {NoText} \cup {TextOf(pre \o body \o post) :
                      pre \in Decors, body \in RouterBodies, post \in Decors}

\* The responses a whole turn is explored with: bare documents, prose, no text
TurnRouterResponses ==
    {NoText, TextOf(<<Prose>>)} \cup {TextOf(<<JsonDoc(v)>>) : v \in JValues}

Scripts == SeqsUpTo({Stmt(s) : s \in Statements}, MaxStatements)
\* Responses of the SQL model: a script, bare or fenced or after a line of prose
SqlResponses ==
    {NoText} \cup {TextOf(pre \o script \o post) :
                      pre \in {<<>>, <<Fence, WordSql, Blank>>, <<Prose, Blank>>},
                      script \in Scripts,
                      post \in {<<>>, <<Blank, Fence>>}}

\* chunk.text of one chunk of the answer stream
Deltas == {None, "", "Yes, ", "it is in stock."}

(***************************************************************************)
(* The services called on their own: nothing is in progress.               *)
(***************************************************************************)
NoRetrieval ==
    [pc |-> "idle", db |-> {}, chunks |-> {}, dist |-> <<>>, top_k |-> 0,
     products |-> <<>>, shop_info |-> <<>>, product_block |-> <<>>, shop_block |-> <<>>]

NoIngest == [pc |-> "idle", run |-> 0, chunks |-> 0, next |-> 0, embedded |-> {}]

LibVarsInit ==
    /\ mem_log = <<>>
    /\ retrieval = NoRetrieval
    /\ document_chunks = {}
    /\ document_chunks_initialized = FALSE
    /\ ingest = NoIngest

(***************************************************************************)
(* chat_with_rag_stream                                                    *)
(***************************************************************************)
\* No delivery adapter is running
ChatVarsInit(program) ==
    /\ adapter = program
    /\ memory_store = EmptyMemoryStore
    /\ t_pc = [t \in Turns |-> "idle"]
    /\ t_step = [t \in Turns |-> "-"]
    /\ t_user = [t \in Turns |-> None]
    /\ t_prev = [t \in Turns |-> <<>>]
    /\ t_response = [t \in Turns |-> <<>>]
    /\ t_ref = [t \in Turns |-> 0]
    /\ t_saw_absent = [t \in Turns |-> FALSE]
    /\ entry_of = [u \in Users |-> 0]
    /\ replaced = [t \in Turns |-> NewChatMemory]

TurnVarsInit ==
    /\ pc = "start"
    /\ prompt = None
    /\ router_response = NoText
    /\ sub_tasks = JNull
    /\ task_i = 0
    /\ combined_contexts = <<>>
    /\ full_context = <<>>
    /\ sql_call = NoCall
    /\ store = InitialStore
    /\ emitted = <<>>
    /\ yielded = <<>>
    /\ exc = None

TurnInit == TurnVarsInit /\ ChatVarsInit("none") /\ LibVarsInit

\* The generator is called with the user's utterance and started
Start ==
    /\ UNCHANGED <<chatVars, libVars>>
    /\ pc = "start"
    /\ \E q \in Utterances : prompt' = q
    /\ pc' = "route"
    /\ UNCHANGED <<router_response, sub_tasks, task_i, combined_contexts, full_context,
                   sql_call, store, emitted, yielded, exc>>

\* 1. DECOMPOSE: the router model answers, route_and_decompose_query returns
RouteAndDecompose(responses) ==
    /\ UNCHANGED <<chatVars, libVars>>
    /\ pc = "route"
    /\ \E response \in responses :
          /\ router_response' = response
          /\ sub_tasks' = route_and_decompose_query(prompt, response)
    /\ pc' = "loop"
    /\ task_i' = 1
    /\ UNCHANGED <<prompt, combined_contexts, full_context, sql_call, store,
                   emitted, yielded, exc>>

\* The generator ends with exception e
Raise(e) ==
    /\ pc' = "raised"
    /\ exc' = e

\* The router model call itself fails: nothing catches it
RouterCallFails ==
    /\ UNCHANGED <<chatVars, libVars>>
    /\ pc = "route"
    /\ Raise("ServiceError")
    /\ UNCHANGED <<prompt, router_response, sub_tasks, task_i, combined_contexts,
                   full_context, sql_call, store, emitted, yielded>>

\* What "for task in sub_tasks" iterates over: the items of a list, the keys of a
\* dict, the characters of a string (none for the empty string)
IterItems(v) ==
    CASE v.kind = "list" -> v.items
      [] v.kind = "object" -> (IF v.sub_query # None THEN <<JStr(9)>> ELSE <<>>)
                                \o (IF v.intent # None THEN <<JStr(6)>> ELSE <<>>)
      [] v.kind = "string" -> [i \in 1..v.chars |-> JStr(1)]
      [] OTHER -> <<>>

Iterable(v) == v.kind \in {"list", "object", "string"}

CurrentTask == IterItems(sub_tasks)[task_i]

InLoop == pc = "loop" /\ Iterable(sub_tasks) /\ task_i <= Len(IterItems(sub_tasks))

\* for task in sub_tasks, sub_tasks being None: TypeError
LoopNotIterable ==
    /\ UNCHANGED <<chatVars, libVars>>
    /\ pc = "loop"
    /\ ~Iterable(sub_tasks)
    /\ Raise("TypeError")
    /\ UNCHANGED <<prompt, router_response, sub_tasks, task_i, combined_contexts,
                   full_context, sql_call, store, emitted, yielded>>

\* task.get on a task that is no dict: AttributeError
TaskNotDict ==
    /\ UNCHANGED <<chatVars, libVars>>
    /\ InLoop
    /\ CurrentTask.kind # "object"
    /\ Raise("AttributeError")
    /\ UNCHANGED <<prompt, router_response, sub_tasks, task_i, combined_contexts,
                   full_context, sql_call, store, emitted, yielded>>

\* intent == "sql": combined_contexts.append(get_sql_data_context(sub_q, model))
TaskSql ==
    /\ UNCHANGED <<chatVars, libVars>>
    /\ InLoop
    /\ CurrentTask.kind = "object"
    /\ CurrentTask.intent = "sql"
    /\ \E response \in SqlResponses, conn_ok \in BOOLEAN :
          LET r == get_sql_data_context(CurrentTask.sub_query, response, conn_ok, store) IN
          /\ sql_call' = r.call
          /\ store' = r.store
          /\ IF r.raised # None
             THEN /\ Raise(r.raised)
                  /\ UNCHANGED <<task_i, combined_contexts>>
             ELSE /\ combined_contexts' = Append(combined_contexts, r.block)
                  /\ task_i' = task_i + 1
                  /\ UNCHANGED <<pc, exc>>
    /\ UNCHANGED <<prompt, router_response, sub_tasks, full_context, emitted, yielded>>

\* intent == "semantic_product": retrieve_similar_products, build_context_for_products
TaskSemanticProduct ==
    /\ UNCHANGED <<chatVars, libVars>>
    /\ InLoop
    /\ CurrentTask.kind = "object"
    /\ CurrentTask.intent = "semantic_product"
    /\ \E conn_ok \in BOOLEAN, query_ok \in BOOLEAN, dist \in Distances :
          IF CurrentTask.sub_query = None
          THEN /\ Raise("ValueError")      \* embed_text(None)
               /\ UNCHANGED <<task_i, combined_contexts>>
          ELSE IF ~conn_ok \/ ~query_ok
          THEN /\ Raise(IF conn_ok THEN "DatabaseError" ELSE "OperationalError")
               /\ UNCHANGED <<task_i, combined_contexts>>
          ELSE /\ \E similar \in retrieve_similar_products(store, dist, DEFAULT_TOP_K) :
                     combined_contexts' = Append(combined_contexts,
                                                 build_context_for_products(similar))
               /\ task_i' = task_i + 1
               /\ UNCHANGED <<pc, exc>>
    /\ UNCHANGED <<prompt, router_response, sub_tasks, full_context, sql_call, store,
                   emitted, yielded>>

\* intent == "semantic_shop": retrieve_similar_shop_info, build_context_for_shop_info
TaskSemanticShop ==
    /\ UNCHANGED <<chatVars, libVars>>
    /\ InLoop
    /\ CurrentTask.kind = "object"
    /\ CurrentTask.intent = "semantic_shop"
    /\ \E conn_ok \in BOOLEAN, query_ok \in BOOLEAN, dist \in Distances :
          IF CurrentTask.sub_query = None
          THEN /\ Raise("ValueError")      \* embed_text(None)
               /\ UNCHANGED <<task_i, combined_contexts>>
          ELSE IF ~conn_ok \/ ~query_ok
          THEN /\ Raise(IF conn_ok THEN "DatabaseError" ELSE "OperationalError")
               /\ UNCHANGED <<task_i, combined_contexts>>
          ELSE /\ \E similar \in retrieve_similar_shop_info(ChunkIds, dist,
                                                              DEFAULT_TOP_K) :
                     combined_contexts' = Append(combined_contexts,
                                                 build_context_for_shop_info(similar))
               /\ task_i' = task_i + 1
               /\ UNCHANGED <<pc, exc>>
    /\ UNCHANGED <<prompt, router_response, sub_tasks, full_context, sql_call, store,
                   emitted, yielded>>

\* No branch of the if/elif chain matches: the loop goes on to the next task
TaskOtherIntent ==
    /\ UNCHANGED <<chatVars, libVars>>
    /\ InLoop
    /\ CurrentTask.kind = "object"
    /\ CurrentTask.intent \notin Intents
    /\ task_i' = task_i + 1
    /\ UNCHANGED <<pc, prompt, router_response, sub_tasks, combined_contexts,
                   full_context, sql_call, store, emitted, yielded, exc>>

\* The SQL model or the embedding model fails during a sub-task: nothing catches it
TaskServiceFails ==
    /\ UNCHANGED <<chatVars, libVars>>
    /\ InLoop
    /\ CurrentTask.kind = "object"
    /\ CurrentTask.intent \in Intents
    /\ Raise("ServiceError")
    /\ UNCHANGED <<prompt, router_response, sub_tasks, task_i, combined_contexts,
                   full_context, sql_call, store, emitted, yielded>>

\* A plausible slip: the synthesis step is inside the loop body
Synthesize_InsideLoop ==
    /\ UNCHANGED <<chatVars, libVars>>
    /\ pc = "loop"
    /\ Iterable(sub_tasks)
    /\ task_i > 1 \/ task_i > Len(IterItems(sub_tasks))
    /\ full_context' = Join(combined_contexts, <<NL, NL>>)
    /\ pc' = "stream"
    /\ UNCHANGED <<prompt, router_response, sub_tasks, task_i, combined_contexts,
                   sql_call, store, emitted, yielded, exc>>

\* 3. SYNTHESIZE: the contexts are joined and the answer stream is opened
Synthesize ==
    /\ UNCHANGED <<chatVars, libVars>>
    /\ pc = "loop"
    /\ Iterable(sub_tasks)
    /\ task_i > Len(IterItems(sub_tasks))
    /\ full_context' = Join(combined_contexts, <<NL, NL>>)
    /\ pc' = "stream"
    /\ UNCHANGED <<prompt, router_response, sub_tasks, task_i, combined_contexts,
                   sql_call, store, emitted, yielded, exc>>

\* A plausible slip: every chunk is yielded, empty or not
Filtered_YieldsAll(chunk_text) == TRUE

\* if chunk.text:
Filtered(chunk_text) == chunk_text # None /\ chunk_text # ""

\* for chunk in stream: one chunk arrives; its text is yielded unless empty
StreamChunk ==
    /\ UNCHANGED <<chatVars, libVars>>
    /\ pc = "stream"
    /\ Len(emitted) < MaxDeltas
    /\ \E d \in Deltas :
          /\ emitted' = Append(emitted, d)
          /\ yielded' = IF Filtered(d) THEN Append(yielded, d) ELSE yielded
    /\ UNCHANGED <<pc, prompt, router_response, sub_tasks, task_i, combined_contexts,
                   full_context, sql_call, store, exc>>

\* The stream is exhausted: the generator returns
StreamEnd ==
    /\ UNCHANGED <<chatVars, libVars>>
    /\ pc = "stream"
    /\ pc' = "done"
    /\ UNCHANGED <<prompt, router_response, sub_tasks, task_i, combined_contexts,
                   full_context, sql_call, store, emitted, yielded, exc>>

\* The language-model stream fails: nothing catches it
StreamFails ==
    /\ UNCHANGED <<chatVars, libVars>>
    /\ pc = "stream"
    /\ Raise("ServiceError")
    /\ UNCHANGED <<prompt, router_response, sub_tasks, task_i, combined_contexts,
                   full_context, sql_call, store, emitted, yielded>>

\* The router alone, over every response of the router model
RouterNext ==
    \/ Start
    \/ RouteAndDecompose(RouterResponses)
    \/ RouterCallFails

SpecRouter == TurnInit /\ [][RouterNext]_vars

\* One whole run of chat_with_rag_stream
TurnNext ==
    \/ Start
    \/ RouteAndDecompose(TurnRouterResponses)
    \/ RouterCallFails
    \/ LoopNotIterable
    \/ TaskNotDict
    \/ TaskSql
    \/ TaskSemanticProduct
    \/ TaskSemanticShop
    \/ TaskOtherIntent
    \/ TaskServiceFails
    \/ Synthesize
    \/ StreamChunk
    \/ StreamEnd
    \/ StreamFails

SpecTurn == TurnInit /\ [][TurnNext]_vars


(***************************************************************************)
(* What a run of chat_with_rag_stream does to the products table: each sql *)
(* sub-task executes the generated script, and the run may end, by a raise *)
(* or by the end of the list, after any number of them.                    *)
(***************************************************************************)
\* The tables one call of get_sql_data_context may leave
SqlTaskStores(db) ==
    {get_sql_data_context(q, response, conn_ok, db).store :
        q \in SubQueries, response \in SqlResponses, conn_ok \in BOOLEAN}

RECURSIVE StoresAfterTasks(_, _)
\* The tables at most n sub-tasks in a row may leave
StoresAfterTasks(dbs, n) ==
    IF n = 0 THEN dbs
    ELSE StoresAfterTasks(dbs \cup UNION {SqlTaskStores(db) : db \in dbs}, n - 1)

\* The tables the loop over the sub-tasks may leave
StoresAfterRun(db) == StoresAfterTasks({db}, MaxTasks)

(***************************************************************************)
(* telegram_bot_handler.py: handle_message, one coroutine per update on    *)
(* one event loop.  The application is built with its defaults, under      *)
(* which an update is handled only once the handler of the update before   *)
(* it has returned or raised.  To its caller chat_with_rag_stream is a     *)
(* sequence of non-empty fragments that ends or raises; the sub-tasks run  *)
(* when the handler asks for the first fragment.                           *)
(***************************************************************************)
\* The handler of the turn has returned or raised
Ended(t) == t_pc[t] \in {"done", "failed", "crashed", "cancelled"}

\* The products table after the generator is resumed: before its first yield the
\* generator runs the sub-tasks, afterwards it only reads the answer stream
StoresAfterNext(t) == IF t_response[t] = <<>> THEN StoresAfterRun(store) ELSE {store}

\* await update.message.reply_text("Thinking...")
TgReceive(t) ==
    /\ adapter = "telegram"
    /\ t_pc[t] = "idle"
    /\ \A x \in Turns \ {t} : t_pc[x] = "idle" \/ Ended(x)
    /\ \E u \in Users, ok \in BOOLEAN :
          /\ t_user' = [t_user EXCEPT ![t] = u]
          /\ t_pc' = [t_pc EXCEPT ![t] = IF ok THEN "thinking" ELSE "crashed"]
    /\ UNCHANGED <<adapter, memory_store, t_step, t_prev, t_response, t_ref, t_saw_absent,
                   entry_of, replaced>>
    /\ UNCHANGED <<turnVars, libVars>>

\* chat_with_rag_stream(prompt=user_text, previous_message=...to_string())
TgOpenStream(t) ==
    /\ adapter = "telegram"
    /\ t_pc[t] = "thinking"
    /\ memory_store' = get_memory_for_user(memory_store, t_user[t])
    /\ t_prev' = [t_prev EXCEPT ![t] = to_string(memory_store'[t_user[t]])]
    /\ t_response' = [t_response EXCEPT ![t] = <<>>]
    /\ t_pc' = [t_pc EXCEPT ![t] = "streaming"]
    /\ UNCHANGED <<adapter, t_step, t_user, t_ref, t_saw_absent, entry_of, replaced>>
    /\ UNCHANGED <<turnVars, libVars>>

\* for chunk in ...: full_response += chunk
TgChunk(t) ==
    /\ adapter = "telegram"
    /\ t_pc[t] = "streaming"
    /\ Len(t_response[t]) < MaxFragments
    /\ store' \in StoresAfterNext(t)
    /\ \E f \in Fragments(t) : t_response' = [t_response EXCEPT ![t] = Append(@, f)]
    /\ UNCHANGED <<adapter, memory_store, t_pc, t_step, t_user, t_prev, t_ref, t_saw_absent,
                   entry_of, replaced>>
    /\ UNCHANGED <<runVars, libVars>>

\* except Exception: the generator raised
TgStreamRaises(t) ==
    /\ adapter = "telegram"
    /\ t_pc[t] = "streaming"
    /\ store' \in StoresAfterNext(t)
    /\ t_pc' = [t_pc EXCEPT ![t] = "apology"]
    /\ UNCHANGED <<adapter, memory_store, t_step, t_user, t_prev, t_response, t_ref,
                   t_saw_absent, entry_of, replaced>>
    /\ UNCHANGED <<runVars, libVars>>

\* The coroutine is cancelled while it consumes the stream
TgCancelled(t) ==
    /\ adapter = "telegram"
    /\ t_pc[t] = "streaming"
    /\ t_pc' = [t_pc EXCEPT ![t] = "cancelled"]
    /\ UNCHANGED <<adapter, memory_store, t_step, t_user, t_prev, t_response, t_ref,
                   t_saw_absent, entry_of, replaced>>
    /\ UNCHANGED <<turnVars, libVars>>

\* A plausible slip: the last chunk is stored instead of full_response
TgStreamDone_StoresLastChunk(t) ==
    /\ adapter = "telegram"
    /\ t_pc[t] = "streaming"
    /\ store' \in StoresAfterNext(t)
    /\ memory_store' = add_bot_message(
                           add_user_message(memory_store, t_user[t], Utter(t)),
                           t_user[t],
                           IF t_response[t] = <<>> THEN <<>>
                           ELSE <<t_response[t][Len(t_response[t])]>>)
    /\ t_pc' = [t_pc EXCEPT ![t] = "final_edit"]
    /\ UNCHANGED <<adapter, t_step, t_user, t_prev, t_response, t_ref, t_saw_absent,
                   entry_of, replaced>>
    /\ UNCHANGED <<runVars, libVars>>

\* The generator is exhausted: add_user_message, add_bot_message
TgStreamDone(t) ==
    /\ adapter = "telegram"
    /\ t_pc[t] = "streaming"
    /\ store' \in StoresAfterNext(t)
    /\ memory_store' = add_bot_message(
                           add_user_message(memory_store, t_user[t], Utter(t)),
                           t_user[t], t_response[t])
    /\ t_pc' = [t_pc EXCEPT ![t] = "final_edit"]
    /\ UNCHANGED <<adapter, t_step, t_user, t_prev, t_response, t_ref, t_saw_absent,
                   entry_of, replaced>>
    /\ UNCHANGED <<runVars, libVars>>

\* await context.bot.edit_message_text(...): the answer, or the apology
TgEdit(t) ==
    /\ adapter = "telegram"
    /\ t_pc[t] \in {"final_edit", "apology"}
    /\ \E ok \in BOOLEAN :
          t_pc' = [t_pc EXCEPT ![t] = IF ~ok THEN "crashed"
                                      ELSE IF t_pc[t] = "final_edit" THEN "done"
                                      ELSE "failed"]
    /\ UNCHANGED <<adapter, memory_store, t_step, t_user, t_prev, t_response, t_ref,
                   t_saw_absent, entry_of, replaced>>
    /\ UNCHANGED <<turnVars, libVars>>

(***************************************************************************)
(* messenger_bot_handler.py: webhook, one request with one message event   *)
(* per turn.  The Flask server runs each request in a thread of its own,   *)
(* so the requests interleave between any two statements, also inside      *)
(* get_memory_for_user and inside to_string.  A ChatMemory is known by the *)
(* turn whose get_memory_for_user created it; a thread may hold one that   *)
(* another thread has since replaced in memory_store.                      *)
(***************************************************************************)
\* What await chat_with_rag_future(...) returns: the whole answer
chat_with_rag_future(t) == SeqsUpTo(Fragments(t), MaxFragments)

\* The calls of get_memory_for_user in webhook: for previous_message, inside
\* add_user_message, inside add_bot_message
MemoryCalls == {"render", "add_user", "add_bot"}

\* The thread holds the ChatMemory that memory_store holds for its user id
HoldsEntry(t) == t_ref[t] = entry_of[t_user[t]]

\* The ChatMemory the thread holds, as it is now
Held(t) == IF HoldsEntry(t) THEN memory_store[t_user[t]] ELSE replaced[t_ref[t]]

\* Python truth of a slot: neither None nor empty
HasUserMessage(cm) == cm.user_message # None /\ cm.user_message # ""
HasBotMessage(cm) == cm.bot_message # NoneText /\ cm.bot_message # <<>>

\* await client.post(url, json=typing_payload)
MsReceive(t) ==
    /\ adapter = "messenger"
    /\ t_pc[t] = "idle"
    /\ \E u \in Users, ok \in BOOLEAN :
          /\ t_user' = [t_user EXCEPT ![t] = u]
          /\ t_pc' = [t_pc EXCEPT ![t] = IF ok THEN "render" ELSE "crashed"]
          /\ t_step' = [t_step EXCEPT ![t] = IF ok THEN "check" ELSE "-"]
    /\ UNCHANGED <<adapter, memory_store, t_prev, t_response, t_ref, t_saw_absent,
                   entry_of, replaced>>
    /\ UNCHANGED <<turnVars, libVars>>

\* get_memory_for_user: if user_id not in self.memory_store
MsCheck(t) ==
    /\ adapter = "messenger"
    /\ t_pc[t] \in MemoryCalls
    /\ t_step[t] = "check"
    /\ t_saw_absent' = [t_saw_absent EXCEPT ![t] = ~memory_store[t_user[t]].present]
    /\ t_step' = [t_step EXCEPT ![t] =
                     IF memory_store[t_user[t]].present THEN "lookup" ELSE "insert"]
    /\ t_ref' = [t_ref EXCEPT ![t] = 0]
    /\ UNCHANGED <<adapter, memory_store, t_pc, t_user, t_prev, t_response, entry_of,
                   replaced>>
    /\ UNCHANGED <<turnVars, libVars>>

\* get_memory_for_user: self.memory_store[user_id] = ChatMemory()
MsInsert(t) ==
    /\ adapter = "messenger"
    /\ t_pc[t] \in MemoryCalls
    /\ t_step[t] = "insert"
    /\ replaced' = IF entry_of[t_user[t]] = 0 THEN replaced
                   ELSE [replaced EXCEPT ![entry_of[t_user[t]]] = memory_store[t_user[t]]]
    /\ memory_store' = [memory_store EXCEPT ![t_user[t]] = NewChatMemory]
    /\ entry_of' = [entry_of EXCEPT ![t_user[t]] = t]
    /\ t_step' = [t_step EXCEPT ![t] = "lookup"]
    /\ UNCHANGED <<adapter, t_pc, t_user, t_prev, t_response, t_ref, t_saw_absent>>
    /\ UNCHANGED <<turnVars, libVars>>

\* get_memory_for_user: return self.memory_store[user_id]
MsLookup(t) ==
    /\ adapter = "messenger"
    /\ t_pc[t] \in MemoryCalls
    /\ t_step[t] = "lookup"
    /\ t_ref' = [t_ref EXCEPT ![t] = entry_of[t_user[t]]]
    /\ t_step' = [t_step EXCEPT ![t] = IF t_pc[t] = "render" THEN "line 22" ELSE "use"]
    /\ UNCHANGED <<adapter, memory_store, t_pc, t_user, t_prev, t_response, t_saw_absent,
                   entry_of, replaced>>
    /\ UNCHANGED <<turnVars, libVars>>

\* A step of to_string on the ChatMemory the thread holds: parts so far, joined, are
\* kept in t_prev; at "asking" to_string has returned
MsToStringStep(t, from, parts, to) ==
    /\ adapter = "messenger"
    /\ t_pc[t] = "render"
    /\ t_step[t] = from
    /\ t_prev' = [t_prev EXCEPT ![t] = parts]
    /\ t_pc' = [t_pc EXCEPT ![t] = IF to = "-" THEN "asking" ELSE "render"]
    /\ t_step' = [t_step EXCEPT ![t] = to]
    /\ UNCHANGED <<adapter, memory_store, t_user, t_response, t_ref, t_saw_absent,
                   entry_of, replaced>>
    /\ UNCHANGED <<turnVars, libVars>>

\* to_string: if not self.user_message ...
MsToStringTestUser(t) ==
    MsToStringStep(t, "line 22", <<>>,
                   IF HasUserMessage(Held(t)) THEN "line 25" ELSE "line 22 and")

\* to_string: ... and not self.bot_message: return ""
MsToStringTestBot(t) ==
    MsToStringStep(t, "line 22 and", <<>>,
                   IF HasBotMessage(Held(t)) THEN "line 25" ELSE "-")

\* to_string: parts = [header]; if self.user_message:
MsToStringIfUser(t) ==
    MsToStringStep(t, "line 25", <<"Chat Memory (2 previous message):">>,
                   IF HasUserMessage(Held(t)) THEN "line 26" ELSE "line 27")

\* to_string: parts.append(f"User: {self.user_message}")
MsToStringAppendUser(t) ==
    MsToStringStep(t, "line 26",
                   t_prev[t] \o <<NL, "User: ", IF Held(t).user_message = None THEN "None"
                                                  ELSE Held(t).user_message>>,
                   "line 27")

\* to_string: if self.bot_message: (if not, return "\n".join(parts))
MsToStringIfBot(t) ==
    MsToStringStep(t, "line 27", t_prev[t],
                   IF HasBotMessage(Held(t)) THEN "line 28" ELSE "-")

\* to_string: parts.append(f"Bot: {self.bot_message}"); return "\n".join(parts)
MsToStringAppendBot(t) ==
    MsToStringStep(t, "line 28",
                   t_prev[t] \o <<NL, "Bot: ">>
                       \o (IF Held(t).bot_message = NoneText THEN <<"None">>
                           ELSE Held(t).bot_message),
                   "-")

\* response = await chat_with_rag_future(...): the answer, or an exception; the
\* sub-tasks of the turn have run
MsAsk(t) ==
    /\ adapter = "messenger"
    /\ t_pc[t] = "asking"
    /\ store' \in StoresAfterRun(store)
    /\ \/ \E r \in chat_with_rag_future(t) :
             /\ t_response' = [t_response EXCEPT ![t] = r]
             /\ t_pc' = [t_pc EXCEPT ![t] = "sending"]
       \/ /\ t_pc' = [t_pc EXCEPT ![t] = "crashed"]
          /\ UNCHANGED t_response
    /\ UNCHANGED <<adapter, memory_store, t_step, t_user, t_prev, t_ref, t_saw_absent,
                   entry_of, replaced>>
    /\ UNCHANGED <<runVars, libVars>>

\* await send_message(sender_id, response)
MsSend(t) ==
    /\ adapter = "messenger"
    /\ t_pc[t] = "sending"
    /\ \E ok \in BOOLEAN :
          /\ t_pc' = [t_pc EXCEPT ![t] = IF ok THEN "add_user" ELSE "crashed"]
          /\ t_step' = [t_step EXCEPT ![t] = IF ok THEN "check" ELSE "-"]
    /\ UNCHANGED <<adapter, memory_store, t_user, t_prev, t_response, t_ref, t_saw_absent,
                   entry_of, replaced>>
    /\ UNCHANGED <<turnVars, libVars>>

\* chat_memory.add_user_message(message), on the ChatMemory the thread holds
MsAddUser(t) ==
    /\ adapter = "messenger"
    /\ t_pc[t] = "add_user"
    /\ t_step[t] = "use"
    /\ IF HoldsEntry(t)
       THEN /\ memory_store' = [memory_store EXCEPT ![t_user[t]].user_message = Utter(t)]
            /\ UNCHANGED replaced
       ELSE /\ replaced' = [replaced EXCEPT ![t_ref[t]].user_message = Utter(t)]
            /\ UNCHANGED memory_store
    /\ t_pc' = [t_pc EXCEPT ![t] = "add_bot"]
    /\ t_step' = [t_step EXCEPT ![t] = "check"]
    /\ UNCHANGED <<adapter, t_user, t_prev, t_response, t_ref, t_saw_absent, entry_of>>
    /\ UNCHANGED <<turnVars, libVars>>

\* chat_memory.add_bot_message(message), on the ChatMemory the thread holds
MsAddBot(t) ==
    /\ adapter = "messenger"
    /\ t_pc[t] = "add_bot"
    /\ t_step[t] = "use"
    /\ IF HoldsEntry(t)
       THEN /\ memory_store' = [memory_store EXCEPT ![t_user[t]].bot_message = t_response[t]]
            /\ UNCHANGED replaced
       ELSE /\ replaced' = [replaced EXCEPT ![t_ref[t]].bot_message = t_response[t]]
            /\ UNCHANGED memory_store
    /\ t_pc' = [t_pc EXCEPT ![t] = "done"]
    /\ t_step' = [t_step EXCEPT ![t] = "-"]
    /\ UNCHANGED <<adapter, t_user, t_prev, t_response, t_ref, t_saw_absent, entry_of>>
    /\ UNCHANGED <<turnVars, libVars>>

\* One of the two bot programs is started
ChatInit ==
    /\ TurnVarsInit
    /\ LibVarsInit
    /\ \E program \in {"telegram", "messenger"} : ChatVarsInit(program)

ChatNext ==
    \E t \in Turns :
        \/ TgReceive(t)
        \/ TgOpenStream(t)
        \/ TgChunk(t)
        \/ TgStreamRaises(t)
        \/ TgCancelled(t)
        \/ TgStreamDone(t)
        \/ TgEdit(t)
        \/ MsReceive(t)
        \/ MsCheck(t)
        \/ MsInsert(t)
        \/ MsLookup(t)
        \/ MsToStringTestUser(t)
        \/ MsToStringTestBot(t)
        \/ MsToStringIfUser(t)
        \/ MsToStringAppendUser(t)
        \/ MsToStringIfBot(t)
        \/ MsToStringAppendBot(t)
        \/ MsAsk(t)
        \/ MsSend(t)
        \/ MsAddUser(t)
        \/ MsAddBot(t)

SpecChat == ChatInit /\ [][ChatNext]_vars

(***************************************************************************)
(* A ChatMemoryService called on its own, one call after the other.        *)
(***************************************************************************)
\* The messages the calls are made with
UserMessages == {"", "hello", "bye"}
BotMessages == {<<>>, <<"Yes.">>, <<"No, ", "sorry.">>}

MemoryCall(op, user_id, message) == [op |-> op, user |-> user_id, message |-> message]

turnOfChatVars == <<adapter, t_pc, t_step, t_user, t_prev, t_response, t_ref, t_saw_absent,
                    entry_of, replaced>>

\* chat_memory_service.get_memory_for_user(user_id)
MemGetMemoryForUser(u) ==
    /\ Len(mem_log) < MaxCalls
    /\ memory_store' = get_memory_for_user(memory_store, u)
    /\ mem_log' = Append(mem_log, MemoryCall("get_memory_for_user", u, None))
    /\ UNCHANGED <<retrieval, document_chunks, document_chunks_initialized, ingest>>
    /\ UNCHANGED <<turnVars, turnOfChatVars>>

\* chat_memory_service.add_user_message(user_id, message)
MemAddUserMessage(u, m) ==
    /\ Len(mem_log) < MaxCalls
    /\ memory_store' = add_user_message(memory_store, u, m)
    /\ mem_log' = Append(mem_log, MemoryCall("add_user_message", u, m))
    /\ UNCHANGED <<retrieval, document_chunks, document_chunks_initialized, ingest>>
    /\ UNCHANGED <<turnVars, turnOfChatVars>>

\* chat_memory_service.add_bot_message(user_id, message)
MemAddBotMessage(u, m) ==
    /\ Len(mem_log) < MaxCalls
    /\ memory_store' = add_bot_message(memory_store, u, m)
    /\ mem_log' = Append(mem_log, MemoryCall("add_bot_message", u, m))
    /\ UNCHANGED <<retrieval, document_chunks, document_chunks_initialized, ingest>>
    /\ UNCHANGED <<turnVars, turnOfChatVars>>

MemoryInit == TurnVarsInit /\ ChatVarsInit("none") /\ LibVarsInit

MemoryNext ==
    \E u \in Users :
        \/ MemGetMemoryForUser(u)
        \/ \E m \in UserMessages : MemAddUserMessage(u, m)
        \/ \E m \in BotMessages : MemAddBotMessage(u, m)

SpecMemory == MemoryInit /\ [][MemoryNext]_vars

(***************************************************************************)
(* The retrieval adapters and the context builders called on their own,    *)
(* as a semantic_product sub-task followed by a semantic_shop sub-task     *)
(* calls them, over every content of the two collections.                  *)
(***************************************************************************)
\* The distances of a retrieval
RetrievalDistances == Distances

RetrieveInit ==
    /\ TurnVarsInit
    /\ ChatVarsInit("none")
    /\ mem_log = <<>>
    /\ document_chunks = {}
    /\ document_chunks_initialized = FALSE
    /\ ingest = NoIngest
    /\ \E db \in SUBSET ProductIds, chunks \in SUBSET ChunkIds,
          dist \in RetrievalDistances, top_k \in 0..MaxTopK :
          retrieval = [NoRetrieval EXCEPT !.pc = "ready", !.db = db, !.chunks = chunks,
                                          !.dist = dist, !.top_k = top_k]

RetrievalStep(from, to, field, values) ==
    /\ retrieval.pc = from
    /\ \E value \in values : retrieval' = [retrieval EXCEPT !.pc = to, ![field] = value]
    /\ UNCHANGED <<mem_log, document_chunks, document_chunks_initialized, ingest>>
    /\ UNCHANGED <<turnVars, chatVars>>

\* similar = retrieve_similar_products(sub_q, top_k=top_k)
RetrieveProducts ==
    RetrievalStep("ready", "products", "products",
                  retrieve_similar_products(retrieval.db, retrieval.dist, retrieval.top_k))

\* build_context_for_products(similar)
BuildProductContext ==
    RetrievalStep("products", "product_block", "product_block",
                  {build_context_for_products(retrieval.products)})

\* similar = retrieve_similar_shop_info(sub_q, top_k=top_k)
RetrieveShopInfo ==
    RetrievalStep("product_block", "shop_info", "shop_info",
                  retrieve_similar_shop_info(retrieval.chunks, retrieval.dist,
                                             retrieval.top_k))

\* build_context_for_shop_info(similar)
BuildShopContext ==
    RetrievalStep("shop_info", "done", "shop_block",
                  {build_context_for_shop_info(retrieval.shop_info)})

RetrieveNext ==
    \/ RetrieveProducts
    \/ BuildProductContext
    \/ RetrieveShopInfo
    \/ BuildShopContext

SpecRetrieve == RetrieveInit /\ [][RetrieveNext]_vars

(***************************************************************************)
(* db_service.py and embedding_service.py: the document is cut into chunks *)
(* and set_embedding_about_shop is called back for each, in one process    *)
(* that may run the ingestion more than once.  A row of document_chunks is *)
(* known by its chunk_index and by the run that wrote it.                  *)
(***************************************************************************)
ChunkRow(chunk_index, run) == [chunk_index |-> chunk_index, run |-> run]

\* What an earlier process has left in the table
EarlierRows == {ChunkRow(i, 0) : i \in 0..(MaxChunks - 1)}

IngestInit ==
    /\ TurnVarsInit
    /\ ChatVarsInit("none")
    /\ mem_log = <<>>
    /\ retrieval = NoRetrieval
    /\ document_chunks \in {{}, EarlierRows}
    /\ document_chunks_initialized = FALSE
    /\ ingest = NoIngest

\* generate_chunks_for_about_shop(callback) is called: the source is missing, or it
\* is converted and cut into chunks
IngestRunStart ==
    /\ ingest.pc \in {"idle", "finished", "failed"}
    /\ ingest.run < MaxRuns
    /\ \/ ingest' = [NoIngest EXCEPT !.pc = "failed", !.run = ingest.run + 1]
       \/ \E n \in 0..MaxChunks :
             ingest' = [NoIngest EXCEPT !.pc = "running", !.run = ingest.run + 1,
                                        !.chunks = n]
    /\ UNCHANGED <<mem_log, retrieval, document_chunks, document_chunks_initialized>>
    /\ UNCHANGED <<turnVars, chatVars>>

\* _init_document_chunks_table: TRUNCATE, committed
TableAfterInit == IF document_chunks_initialized THEN document_chunks ELSE {}

\* INSERT ... ON CONFLICT (chunk_index) DO UPDATE, committed
Upsert(table, row) ==
    {r \in table : r.chunk_index # row.chunk_index} \cup {row}

\* callback(chunk_index, ...): set_embedding_about_shop raises before it has
\* committed anything (get_connection, or the first statement of the initialisation)
IngestCallbackRaisesEarly ==
    /\ ingest.pc = "running"
    /\ ingest.next < ingest.chunks
    /\ ingest' = [ingest EXCEPT !.pc = "failed"]
    /\ UNCHANGED <<mem_log, retrieval, document_chunks, document_chunks_initialized>>
    /\ UNCHANGED <<turnVars, chatVars>>

\* callback(chunk_index, ...): the table is initialised if the flag is not set; then
\* the embedding fails or is invalid and the chunk is skipped
IngestCallbackSkips ==
    /\ ingest.pc = "running"
    /\ ingest.next < ingest.chunks
    /\ document_chunks' = TableAfterInit
    /\ document_chunks_initialized' = TRUE
    /\ ingest' = [ingest EXCEPT !.next = @ + 1]
    /\ UNCHANGED <<mem_log, retrieval>>
    /\ UNCHANGED <<turnVars, chatVars>>

\* callback(chunk_index, ...): the table is initialised if the flag is not set; then
\* the INSERT fails, is rolled back and the exception ends the run
IngestCallbackInsertFails ==
    /\ ingest.pc = "running"
    /\ ingest.next < ingest.chunks
    /\ document_chunks' = TableAfterInit
    /\ document_chunks_initialized' = TRUE
    /\ ingest' = [ingest EXCEPT !.pc = "failed"]
    /\ UNCHANGED <<mem_log, retrieval>>
    /\ UNCHANGED <<turnVars, chatVars>>

\* callback(chunk_index, ...): the table is initialised if the flag is not set; then
\* the chunk is embedded and upserted
IngestCallbackUpserts ==
    /\ ingest.pc = "running"
    /\ ingest.next < ingest.chunks
    /\ document_chunks' = Upsert(TableAfterInit, ChunkRow(ingest.next, ingest.run))
    /\ document_chunks_initialized' = TRUE
    /\ ingest' = [ingest EXCEPT !.next = @ + 1,
                                !.embedded = @ \cup {ingest.next}]
    /\ UNCHANGED <<mem_log, retrieval>>
    /\ UNCHANGED <<turnVars, chatVars>>

\* The loop over the chunks is over: generate_chunks_for_about_shop returns
IngestRunEnd ==
    /\ ingest.pc = "running"
    /\ ingest.next = ingest.chunks
    /\ ingest' = [ingest EXCEPT !.pc = "finished"]
    /\ UNCHANGED <<mem_log, retrieval, document_chunks, document_chunks_initialized>>
    /\ UNCHANGED <<turnVars, chatVars>>

IngestNext ==
    \/ IngestRunStart
    \/ IngestCallbackRaisesEarly
    \/ IngestCallbackSkips
    \/ IngestCallbackInsertFails
    \/ IngestCallbackUpserts
    \/ IngestRunEnd

SpecIngest == IngestInit /\ [][IngestNext]_vars

(***************************************************************************)
(* Properties of the router and decomposer (SpecRouter).                   *)
(***************************************************************************)
\* The router model's output does not parse: there is no text, or what is left
\* after the fences are stripped is not one JSON document
ParseFails(response) ==
    response.none \/ ~json_loads(StripJsonFence(response.toks)).ok

\* C1: whenever the router model's output fails to parse, route_and_decompose_query
\* raises nothing and returns exactly one sub-task, of intent semantic_shop, whose
\* sub_query is the original utterance.
C1_FallbackOnParseFailure ==
    (pc = "loop" /\ ParseFails(router_response)) =>
        /\ exc = None
        /\ sub_tasks.kind = "list"
        /\ Len(sub_tasks.items) = 1
        /\ sub_tasks.items[1].kind = "object"
        /\ sub_tasks.items[1].intent = "semantic_shop"
        /\ sub_tasks.items[1].sub_query = prompt

\* A response that holds a JSON document after a line of prose has been answered
\* with the fallback
C1_Witness ==
    /\ pc = "loop"
    /\ ~router_response.none
    /\ ParseFails(router_response)
    /\ \E i \in 1..Len(router_response.toks) : router_response.toks[i].t = "jsondoc"
    /\ prompt = "do you have free shipping?"
    /\ sub_tasks = FallbackTasks(prompt)

\* A list of sub-task objects, each with one of the three intents
IsSubTaskList(v) ==
    /\ v.kind = "list"
    /\ \A i \in 1..Len(v.items) :
          v.items[i].kind = "object" /\ v.items[i].intent \in Intents

\* C2: every value route_and_decompose_query returns is a list of sub-task objects
\* whose intents are among sql, semantic_product and semantic_shop (anything else
\* having been replaced by the fallback).
C2_OnlyEnumeratedIntents ==
    pc = "loop" => IsSubTaskList(sub_tasks)

(***************************************************************************)
(* Properties of one run of chat_with_rag_stream (SpecTurn).               *)
(***************************************************************************)
\* C3: once the contexts are joined, there is one block per sub-task of the list the
\* decomposer returned, and the grounding context is the blocks joined by a blank
\* line, in order.
C3_OneBlockPerSubTask ==
    pc \in {"stream", "done"} =>
        /\ sub_tasks.kind = "list"
        /\ Len(combined_contexts) = Len(sub_tasks.items)
        /\ full_context = Join(combined_contexts, <<NL, NL>>)

\* C6: the products table durably holds what it held when the turn began, whatever
\* query strings were generated and executed.
C6_StoreNeverMutated ==
    store = InitialStore

\* A step of get_sql_data_context on the current task
SqlStep ==
    /\ InLoop
    /\ CurrentTask.kind = "object"
    /\ CurrentTask.intent = "sql"
    /\ exc' # "ServiceError"
    /\ <<pc, task_i, sql_call, combined_contexts, store>>'
          # <<pc, task_i, sql_call, combined_contexts, store>>

\* What the server answers to the script get_sql_data_context has just executed
ServerAnswer == cursor_execute(sql_call'.generated_sql, store)

LastBlock(contexts) == contexts[Len(contexts)]

HasToken(text, tok) == \E i \in 1..Len(text) : text[i] = tok

\* C7: whenever the execution of a generated query fails, get_sql_data_context raises
\* nothing and returns a block that says the data could not be retrieved and holds the
\* error text; the loop goes on with the next sub-task.
C7_ExecutionFailureBecomesBlock ==
    [][(SqlStep /\ sql_call'.connected /\ ServerAnswer.error # None) =>
          /\ pc' = "loop"
          /\ exc' = None
          /\ task_i' = task_i + 1
          /\ Len(combined_contexts') = Len(combined_contexts) + 1
          /\ LastBlock(combined_contexts')[1]
                = "Database data could not be retrieved. Error: "
          /\ HasToken(LastBlock(combined_contexts'), ServerAnswer.error)]_vars

\* The answer stream was opened after a sub-task whose query the server rejected
C7_Witness ==
    /\ pc = "stream"
    /\ sql_call.connected
    /\ sql_call.results.type = "str"
    /\ sql_call.results.text = "column \"colour\" does not exist"
    /\ combined_contexts # <<>>
    /\ LastBlock(combined_contexts)
          = <<"Database data could not be retrieved. Error: ",
              "column \"colour\" does not exist">>

\* C8: whenever the execution of a generated query succeeds with a result set, the
\* block get_sql_data_context returns holds the query, the column names of the result
\* set and its rows.
C8_BlockStatesColumnsAndRows ==
    [][(SqlStep /\ sql_call'.connected /\ ServerAnswer.error = None
           /\ ServerAnswer.described) =>
          /\ pc' = "loop"
          /\ Len(combined_contexts') = Len(combined_contexts) + 1
          /\ \A i \in 1..Len(sql_call'.generated_sql) :
                HasToken(LastBlock(combined_contexts'),
                         SqlString(sql_call'.generated_sql)[i])
          /\ \A i \in 1..Len(ServerAnswer.rows) :
                HasToken(LastBlock(combined_contexts'), ServerAnswer.rows[i])
          /\ HasToken(LastBlock(combined_contexts'), "count")]_vars

\* C9: a failure of the data store during a sub-task (the connection cannot be opened,
\* or the retrieval query fails) never ends the generator with an exception.
C9_StoreFailureContained ==
    exc \notin {"OperationalError", "DatabaseError"}

\* A delta with text in it
NonEmptyDelta(d) == d # None /\ d # ""

\* C10: the fragments yielded so far are the deltas the stream has emitted so far
\* without the empty ones, in the same order; no yielded fragment is empty.
C10_YieldedIsFilteredStream ==
    /\ yielded = SelectSeq(emitted, NonEmptyDelta)
    /\ \A i \in 1..Len(yielded) : yielded[i] # "" /\ yielded[i] # None

\* A finished stream of two fragments with an empty delta between them
C10_Witness ==
    /\ pc = "done"
    /\ emitted = <<"Yes, ", "", "it is in stock.">>
    /\ yielded = <<"Yes, ", "it is in stock.">>

(***************************************************************************)
(* Properties of the delivery adapters and the turn memory (SpecChat).     *)
(***************************************************************************)
\* The two messages memory_store holds for a user id
Stored(u) == <<memory_store[u].user_message, memory_store[u].bot_message>>

\* No handler is still running
AllFinished == \A t \in Turns : Ended(t)

\* C4: once the turns have finished, the user message and the bot message
\* stored for a user id are the message and the whole answer of one same turn
\* of that user, whatever the interleaving of the turns was.
C4_WritesDoNotInterleave ==
    AllFinished =>
        \A u \in Users :
            Stored(u) # <<None, NoneText>> =>
                \E t \in Turns :
                    /\ t_user[t] = u
                    /\ Stored(u) = <<Utter(t), t_response[t]>>

\* The handler of turn t takes the step
TurnStep(t) ==
    \/ t_pc'[t] # t_pc[t]
    \/ t_step'[t] # t_step[t]
    \/ t_response'[t] # t_response[t]

\* Before and during the step the answer of turn t is not complete
StreamIncomplete(t) ==
    /\ t_pc[t] \in {"idle", "thinking", "streaming", "render", "asking"}
    /\ t_pc'[t] # "final_edit"

\* C5: a turn whose answer has not fully arrived, because the stream is still
\* running, has raised or was abandoned, changes no stored message: neither
\* its user message nor a part of its answer is stored, and what is stored
\* for every user stays as it was.
C5_MemoryWrittenOnlyOnCompletion ==
    [][ (\E t \in Turns : TurnStep(t) /\ StreamIncomplete(t))
            => \A u \in Users : Stored(u)' = Stored(u) ]_vars

(***************************************************************************)
(* Properties of the chat memory called on its own (SpecMemory).           *)
(***************************************************************************)
\* The calls of one operation made for user id u, oldest first
CallsOf(u, op) == SelectSeq(mem_log, LAMBDA c : c.user = u /\ c.op = op)

\* Call number i is the operation op for user id u
IsCall(i, op, u) == i <= Len(mem_log) /\ mem_log[i].op = op /\ mem_log[i].user = u

\* The message of the latest call of the operation for u, or none
LastAdded(u, op, none) ==
    LET cs == CallsOf(u, op) IN IF cs = <<>> THEN none ELSE cs[Len(cs)].message

\* C11: after any sequence of calls, what is stored for a user id is the message of
\* the latest add_user_message and the message of the latest add_bot_message for it,
\* one per role, and to_string shows no earlier message of either role.
C11_LatestMessagePerRole ==
    \A u \in Users :
        LET users == CallsOf(u, "add_user_message")
            bots == CallsOf(u, "add_bot_message")
            text == to_string(memory_store[u])
        IN /\ memory_store[u].user_message = LastAdded(u, "add_user_message", None)
           /\ memory_store[u].bot_message = LastAdded(u, "add_bot_message", NoneText)
           /\ \A i \in 1..Len(users) :
                 users[i].message # users[Len(users)].message
                     => ~HasToken(text, users[i].message)
           /\ \A i \in 1..Len(bots) :
                 bots[i].message # bots[Len(bots)].message
                     => \A j \in 1..Len(bots[i].message) :
                           ~HasToken(text, bots[i].message[j])

\* Both roles of a user were written twice, and only the second pair is rendered
C11_Witness ==
    /\ Len(mem_log) = 4
    /\ IsCall(1, "add_user_message", "u1") /\ mem_log[1].message = "hello"
    /\ IsCall(2, "add_bot_message", "u1") /\ mem_log[2].message = <<"Yes.">>
    /\ IsCall(3, "add_user_message", "u1") /\ mem_log[3].message = "bye"
    /\ IsCall(4, "add_bot_message", "u1") /\ mem_log[4].message = <<"No, ", "sorry.">>
    /\ to_string(memory_store["u1"])
          = <<"Chat Memory (2 previous message):", NL, "User: ", "bye", NL,
              "Bot: ", "No, ", "sorry.">>

\* A slot that holds no message: None, or the empty text
EmptyUserSlot(cm) == cm.user_message \in {None, ""}
EmptyBotSlot(cm) == cm.bot_message \in {NoneText, <<>>}

\* C12: the first call for a user id creates its entry with both slots empty; to_string
\* is the empty text exactly when both slots are empty, and otherwise the header line
\* followed by the line of each non-empty slot and of no other.
C12_LazySlotAndRendering ==
    \A u \in Users :
        LET cm == memory_store[u]
            text == to_string(cm)
            called == \E i \in 1..Len(mem_log) : mem_log[i].user = u
        IN /\ cm.present <=> called
           /\ (called /\ CallsOf(u, "add_user_message") = <<>>
                      /\ CallsOf(u, "add_bot_message") = <<>>) => cm = NewChatMemory
           /\ text = <<>> <=> (EmptyUserSlot(cm) /\ EmptyBotSlot(cm))
           /\ text # <<>> =>
                 /\ text[1] = "Chat Memory (2 previous message):"
                 /\ HasToken(text, "User: ") <=> ~EmptyUserSlot(cm)
                 /\ HasToken(text, "Bot: ") <=> ~EmptyBotSlot(cm)
                 /\ Len(text) = 1 + (IF EmptyUserSlot(cm) THEN 0 ELSE 3)
                                  + (IF EmptyBotSlot(cm) THEN 0
                                     ELSE 2 + Len(cm.bot_message))
                 /\ ~EmptyUserSlot(cm) => HasToken(text, cm.user_message)
                 /\ ~EmptyBotSlot(cm) =>
                       \A j \in 1..Len(cm.bot_message) : HasToken(text, cm.bot_message[j])

\* An entry created by a lookup renders as the empty text, an entry with an empty user
\* message and an answer renders the answer alone
C12_Witness ==
    /\ Len(mem_log) = 3
    /\ IsCall(1, "get_memory_for_user", "u1")
    /\ IsCall(2, "add_user_message", "u2") /\ mem_log[2].message = ""
    /\ IsCall(3, "add_bot_message", "u2") /\ mem_log[3].message = <<"Yes.">>
    /\ memory_store["u1"] = NewChatMemory
    /\ to_string(memory_store["u1"]) = <<>>
    /\ to_string(memory_store["u2"])
          = <<"Chat Memory (2 previous message):", NL, "Bot: ", "Yes.">>

(***************************************************************************)
(* Properties of the retrieval adapters and context builders               *)
(* (SpecRetrieve).                                                         *)
(***************************************************************************)
Min(a, b) == IF a < b THEN a ELSE b

\* rows are the k nearest of the ids, nearest first, each once, with its similarity
NearestRows(rows, ids, dist, k) ==
    /\ Len(rows) = Min(k, Cardinality(ids))
    /\ \A i \in 1..Len(rows) :
          /\ rows[i].id \in ids
          /\ rows[i].similarity = 1 - dist[rows[i].id]
          /\ \A j \in 1..Len(rows) :
                /\ i # j => rows[i].id # rows[j].id
                /\ i < j => dist[rows[i].id] <= dist[rows[j].id]
          /\ \A id \in ids :
                (\A j \in 1..Len(rows) : rows[j].id # id) => dist[rows[i].id] <= dist[id]

\* C13: whatever the two collections hold and whatever top_k is, each retrieval returns
\* min(top_k, number of rows with an embedding) rows, all of them rows with an
\* embedding, each once, the nearest ones, in ascending distance; none when no row
\* has an embedding.
C13_TopKOfEmbeddedRows ==
    /\ retrieval.pc \in {"products", "product_block", "shop_info", "done"} =>
          NearestRows(retrieval.products,
                      {id \in retrieval.db : Product(id).embedded},
                      retrieval.dist, retrieval.top_k)
    /\ retrieval.pc \in {"shop_info", "done"} =>
          NearestRows(retrieval.shop_info,
                      {id \in retrieval.chunks : Chunk(id).embedded},
                      retrieval.dist, retrieval.top_k)

\* With top_k above the number of rows, the two embedded products of three are
\* returned, and nothing of a document collection whose only row has no embedding
C13_Witness ==
    /\ retrieval.pc = "done"
    /\ retrieval.top_k = 4
    /\ retrieval.db = ProductIds
    /\ retrieval.dist = [i \in 1..3 |-> 4 - i]
    /\ Len(retrieval.products) = 2
    /\ retrieval.products[1].id = 2
    /\ retrieval.products[2].id = 1
    /\ retrieval.chunks = {3}
    /\ retrieval.shop_info = <<>>

\* C14: for an empty list of rows each builder returns its "no relevant ..." sentence,
\* which is not the empty text.
C14_NoResultsSentence ==
    /\ (retrieval.pc \in {"product_block", "shop_info", "done"}
           /\ retrieval.products = <<>>) =>
          /\ retrieval.product_block = <<"No relevant products found in the database.">>
          /\ retrieval.product_block # <<>>
    /\ (retrieval.pc = "done" /\ retrieval.shop_info = <<>>) =>
          /\ retrieval.shop_block = <<"No relevant shop information found.">>
          /\ retrieval.shop_block # <<>>

\* Both retrievals found nothing in collections that hold rows, and both blocks are
\* the sentences
C14_Witness ==
    /\ retrieval.pc = "done"
    /\ retrieval.db = {3}
    /\ retrieval.chunks = {3}
    /\ retrieval.top_k = 4
    /\ retrieval.products = <<>>
    /\ retrieval.shop_info = <<>>
    /\ retrieval.product_block = <<"No relevant products found in the database.">>
    /\ retrieval.shop_block = <<"No relevant shop information found.">>

(***************************************************************************)
(* Further properties of the delivery adapters (SpecChat).                 *)
(***************************************************************************)
\* In this step the core raises to the handler of turn t
OrchestratorRaises(t) ==
    /\ t_pc[t] \in {"streaming", "asking"}
    /\ t_pc'[t] \in {"apology", "crashed"}

\* C15: whenever the core raises to a delivery adapter, the handler goes on to present
\* the apology to the user, instead of ending with the exception, and does not ask
\* again.
C15_ApologyOnOrchestratorFailure ==
    [][ \A t \in Turns : OrchestratorRaises(t) =>
            /\ t_pc'[t] = "apology"
            /\ t_response'[t] = t_response[t] ]_vars

\* The turns whose utterance or answer fragment the token is
TurnsOfToken(tok) == {x \in Turns : tok = Utter(x) \/ tok \in Fragments(x)}

\* C16: a step of a turn of user id u (lazy creation, add_user_message,
\* add_bot_message) leaves the entries of all other user ids as they are, and the
\* prior-turn text of a turn holds messages of turns of its own user id only.
C16_OtherUsersUntouched ==
    [][ \A t \in Turns :
            /\ TurnStep(t) =>
                  \A v \in Users \ {t_user'[t]} : memory_store'[v] = memory_store[v]
            /\ \A i \in 1..Len(t_prev'[t]) :
                  \A x \in TurnsOfToken(t_prev'[t][i]) : t_user'[x] = t_user'[t] ]_vars

\* Two Telegram turns of different users have completed, each entry holds its own
\* turn, and the second turn was given an empty prior-turn text
C16_Witness ==
    /\ adapter = "telegram"
    /\ t_user = <<"u1", "u2">>
    /\ t_pc = <<"done", "done">>
    /\ Stored("u1") = <<Utter(1), t_response[1]>>
    /\ Stored("u2") = <<Utter(2), t_response[2]>>
    /\ Len(t_response[1]) = 2
    /\ t_prev[2] = <<>>

\* C19: the step that ends the stream of a Telegram turn stores the utterance and the
\* fragments consumed, in order, for the chat id; the prior-turn text of the turn is
\* the rendering of the entry as it is before that step; no earlier step of the turn
\* stores anything, and every fragment consumed is appended to the answer.
C19_TelegramMemoryAfterCompletedTurn ==
    [][ \A t \in Turns : (adapter = "telegram" /\ TurnStep(t)) =>
            IF t_pc[t] = "streaming" /\ t_pc'[t] = "final_edit"
            THEN /\ Stored(t_user[t])' = <<Utter(t), t_response[t]>>
                 /\ t_prev[t] = to_string(memory_store[t_user[t]])
                 /\ t_response'[t] = t_response[t]
            ELSE /\ \A u \in Users : Stored(u)' = Stored(u)
                 /\ (t_pc[t] = "streaming" /\ t_pc'[t] = "streaming") =>
                        \E f \in Fragments(t) : t_response'[t] = Append(t_response[t], f) ]_vars

\* A second completed Telegram turn of the same chat: the first turn's messages were
\* its prior-turn text, and its own two-fragment answer has replaced them
C19_Witness ==
    /\ adapter = "telegram"
    /\ t_user = <<"u1", "u1">>
    /\ t_pc = <<"done", "done">>
    /\ t_response[1] = <<"A1">>
    /\ t_response[2] = <<"A2", "B2">>
    /\ t_prev[2] = <<"Chat Memory (2 previous message):", NL, "User: ", Utter(1), NL,
                     "Bot: ", "A1">>
    /\ Stored("u1") = <<Utter(2), <<"A2", "B2">> >>

(***************************************************************************)
(* Further properties of one run of chat_with_rag_stream (SpecTurn).       *)
(***************************************************************************)
\* The block the step has appended
Appended == LastBlock(combined_contexts')

\* The step has appended exactly one block
AppendsOne ==
    /\ Len(combined_contexts') = Len(combined_contexts) + 1
    /\ SubSeq(combined_contexts', 1, Len(combined_contexts)) = combined_contexts

\* C17: the loop position moves one sub-task at a time, in list order; the step over a
\* sub-task appends the block of get_sql_data_context for sql, of
\* build_context_for_products over retrieve_similar_products for semantic_product, of
\* build_context_for_shop_info over retrieve_similar_shop_info for semantic_shop;
\* blocks are appended by such steps only; the stream is opened, and deltas arrive,
\* only once the position is past the last sub-task.
C17_DispatchInOrderThenStream ==
    [][ /\ task_i' # task_i =>
              \/ pc = "route" /\ task_i' = 1
              \/ InLoop /\ task_i' = task_i + 1
        /\ combined_contexts' # combined_contexts =>
              InLoop /\ task_i' = task_i + 1 /\ AppendsOne
        /\ (InLoop /\ task_i' = task_i + 1 /\ CurrentTask.kind = "object"
               /\ CurrentTask.intent \in Intents) =>
              /\ AppendsOne
              /\ CASE CurrentTask.intent = "sql" ->
                        /\ sql_call'.called /\ sql_call'.connected
                        /\ Appended[1] \in {"Analytical Data (from query ",
                                            "Database data could not be retrieved. Error: "}
                   [] CurrentTask.intent = "semantic_product" ->
                        /\ sql_call' = sql_call
                        /\ \E dist \in Distances :
                              \E similar \in retrieve_similar_products(store, dist,
                                                                       DEFAULT_TOP_K) :
                                 Appended = build_context_for_products(similar)
                   [] OTHER ->
                        /\ sql_call' = sql_call
                        /\ \E dist \in Distances :
                              \E similar \in retrieve_similar_shop_info(ChunkIds, dist,
                                                                        DEFAULT_TOP_K) :
                                 Appended = build_context_for_shop_info(similar)
        /\ (pc # "stream" /\ pc' = "stream") =>
              /\ pc = "loop"
              /\ task_i = Len(IterItems(sub_tasks)) + 1
        /\ emitted' # emitted =>
              /\ pc = "stream"
              /\ task_i = Len(IterItems(sub_tasks)) + 1
              /\ combined_contexts' = combined_contexts ]_vars

\* The answer streams after a semantic_shop sub-task and an sql sub-task were
\* executed, in that order
C17_Witness ==
    /\ pc = "stream"
    /\ emitted # <<>>
    /\ sub_tasks.kind = "list"
    /\ Len(sub_tasks.items) = 2
    /\ sub_tasks.items[1].kind = "object" /\ sub_tasks.items[1].intent = "semantic_shop"
    /\ sub_tasks.items[2].kind = "object" /\ sub_tasks.items[2].intent = "sql"
    /\ task_i = 3
    /\ Len(combined_contexts) = 2
    /\ combined_contexts[1][1] = "Here is the relevant shop information:"
    /\ combined_contexts[2][1] = "Analytical Data (from query "

(***************************************************************************)
(* Properties of the document ingestion (SpecIngest).                      *)
(***************************************************************************)
\* C18: when a run that called the callback back at least once has finished, the
\* table holds the chunks embedded and stored in this run, and no row of an earlier
\* run or process.
C18_RunStartsFromCleanSlate ==
    (ingest.pc = "finished" /\ ingest.chunks >= 1) =>
        document_chunks = {ChunkRow(i, ingest.run) : i \in ingest.embedded}

====
